---- MODULE Spec2Model ----
(***************************************************************************)
(* A model of the "plan -> parse -> execute -> report" core of That        *)
(* Browser: the AI service's request lifecycle (src/main/ai-service.js),   *)
(* its stream decoders, the command grammar parser and the automation      *)
(* run loop of the chat panel (src/renderer/components/AIPanel.jsx), the   *)
(* automation IPC surface (src/main/main.js, browser-automation), and the  *)
(* panel's handling of the stream events main sends it.                    *)
(*                                                                         *)
(* Each part has its own specification over its own variables; the parts   *)
(* it does not use stay at their initial values.                           *)
(***************************************************************************)
EXTENDS Integers, Sequences, FiniteSets, TLC

\* ------------------------------------------------------------------ bounds
\* Requests the AI service is asked to serve in one behaviour.
MaxReq == 1
\* reader.read() results that carry data, per stream.
MaxReads == 1
\* Lines of a streamed response body.
MaxLines == 3
\* Pieces a response text is put together from.
MaxPieces == 4
\* Automation runs started in one behaviour, and commands per run.
MaxRuns == 2
MaxCmds == 3
\* Characters of the text a type or fill command carries, at most.
MaxText == 2
\* Messages sent from the chat panel, and chunk events per stream.
MaxSends == 2
MaxChunks == 1
\* Messages of the list a request body is built from, at most.
MaxMsgs == 3

VARIABLES
    \* ---- AIService (src/main/ai-service.js)
    activeControllers,  \* this.activeControllers: the controllers of the live set
    req,                \* one record per chat()/chatStream() call
    abortCount,         \* what the last abort() returned (-1: never called)
    \* ---- one run of a stream decoder (_streamOpenAICompatible and its siblings)
    dec,
    \* ---- one text on its way through cleanMessageText / parseCommands
    par,
    \* ---- AIPanel (src/renderer/components/AIPanel.jsx)
    automationSteps,    \* the step records of the execution tracker
    isAutomating,
    runningStepIndex,   \* 1-based; 0 stands for the -1 of the code
    run,                \* one record per call of executeAutomationCommands
    \* ---- automation handlers of main.js and BrowserAutomation
    view,               \* getActiveView() finds a tab
    debuggerAttached,   \* _debuggerAttached has the tab's webContents
    reply,              \* what the last automation handler settled with
    \* ---- the chat panel's streams (AIPanel.jsx, 'ai:chat-stream' of main.js)
    isTyping,
    streamIdRef,        \* streamIdRef.current; 0 stands for null
    chat,               \* one record per handleSend: the panel's and main's side
    toRenderer,         \* the messages on their way from main to the renderer
    \* ---- one message list on its way into a request body (ai-service.js)
    built

vars == <<activeControllers, req, abortCount, dec, par,
          automationSteps, isAutomating, runningStepIndex, run,
          view, debuggerAttached, reply,
          isTyping, streamIdRef, chat, toRenderer, built>>

varsSvc == <<activeControllers, req, abortCount>>

varsDec == <<dec>>

varsPar == <<par>>

varsRun == <<automationSteps, isAutomating, runningStepIndex, run>>

varsIpc == <<view, debuggerAttached, reply>>

varsPanel == <<isTyping, streamIdRef, chat, toRenderer>>

varsBody == <<built>>

\* What each part leaves alone.
notSvc == <<varsDec, varsPar, varsRun, varsIpc, varsPanel, varsBody>>

notDec == <<varsSvc, varsPar, varsRun, varsIpc, varsPanel, varsBody>>

notPar == <<varsSvc, varsDec, varsRun, varsIpc, varsPanel, varsBody>>

notRun == <<varsSvc, varsDec, varsPar, varsIpc, varsPanel, varsBody>>

notIpc == <<varsSvc, varsDec, varsPar, varsRun, varsPanel, varsBody>>

notPanel == <<varsSvc, varsDec, varsPar, varsRun, varsIpc, varsBody>>

notBody == <<varsSvc, varsDec, varsPar, varsRun, varsIpc, varsPanel>>

\* ------------------------------------------------------------ AI service
Reqs == 1..MaxReq

Providers == {"openai", "anthropic", "gemini", "ollama", "lmstudio"}

\* The parts of a provider's settings validateProvider looks at: is each set?
Configs == [apiKey : BOOLEAN, baseUrl : BOOLEAN, model : BOOLEAN]

NoReq ==
    [kind |-> "none", provider |-> "openai",
     cfg |-> [apiKey |-> TRUE, baseUrl |-> TRUE, model |-> TRUE],
     pc |-> "idle", aborted |-> FALSE, timer |-> "none",
     calls |-> <<>>, outcome |-> "none", fetches |-> 0, reads |-> 0,
     log |-> <<>>]

\* validateProvider: "ok", or which configuration error it throws.
ValidateProviderNoModelCheck(name, cfg) ==
    IF name \notin {"ollama", "lmstudio"} /\ ~cfg.apiKey THEN "noApiKey"
    ELSE IF ~cfg.baseUrl THEN "noBaseUrl"
    ELSE "ok"

ValidateProvider(name, cfg) ==
    LET isLocal == name = "ollama" \/ name = "lmstudio" IN
    IF ~isLocal /\ ~cfg.apiKey THEN "noApiKey"
    ELSE IF ~cfg.baseUrl THEN "noBaseUrl"
    ELSE IF ~cfg.model THEN "noModel"
    ELSE "ok"

\* The switch of chat()/chatStream(): which backend implementation serves a provider.
Dialect(name) ==
    CASE name = "gemini" -> "gemini"
      [] name = "anthropic" -> "anthropic"
      [] name = "ollama" -> "ollama"
      [] OTHER -> "openai"

\* _enrichFetchError(err, provider): the error thrown in place of err. "net"
\* is a connection failure ('fetch failed', ECONNREFUSED, ECONNRESET),
\* "connect" the error that names the local application and how to start it.
EnrichFetchError(e, name) ==
    LET isLocal == name = "ollama" \/ name = "lmstudio" IN
    IF isLocal /\ e = "net" THEN "connect" ELSE e

\* The awaits of a backend method whose rejection reaches a catch that calls
\* _enrichFetchError: every await of _chatOpenAICompatible and _chatOllama,
\* and the fetch of _streamOpenAICompatible; no other backend method calls
\* it. listModels passes everything it throws through it.
Enriches(kind, dialect, stage) ==
    \/ kind = "chat" /\ dialect \in {"openai", "ollama"}
                     /\ stage \in {"fetch", "errbody", "json"}
    \/ kind = "stream" /\ dialect = "openai" /\ stage = "fetch"
    \/ kind = "list"

\* The error a backend method ends with when the await at q.pc fails with e.
Thrown(q, e) ==
    IF Enriches(q.kind, Dialect(q.provider), q.pc)
    THEN EnrichFetchError(e, q.provider) ELSE e

\* controller.abort() on one request's controller, with the two 'abort'
\* listeners _makeController registered ({once: true}): clearTimeout(timer)
\* and cleanup. A second abort() of the same controller fires no event.
ControllerAbortKeepsTimer(q) ==
    IF q.aborted THEN q ELSE [q EXCEPT !.aborted = TRUE]

ControllerAbort(q) ==
    IF q.aborted THEN q
    ELSE [q EXCEPT !.aborted = TRUE,
                   !.timer = IF q.timer = "armed" THEN "cleared" ELSE q.timer]

\* _makeController(120000): a new controller, registered in the live set,
\* with its timeout armed.
MakeController(q) ==
    [q EXCEPT !.aborted = FALSE, !.timer = "armed"]

\* The kinds of complete line a read can carry, as the decoders tell them apart:
\*   text   a payload with a non-empty text delta
\*   empty  a payload of the delta type whose text is ""
\*   stop   the dialect's end marker ([DONE], message_stop, done: true)
\*   bad    anything that is skipped: no "data: " prefix, JSON.parse fails
LineKinds == {"text", "empty", "stop", "bad"}

\* The for-loop over the complete lines of one read. Returns the callbacks
\* invoked so far and whether the decoder returned (onDone() sent on the marker).
RECURSIVE DeliverLinesNoReturn(_, _, _)
DeliverLinesNoReturn(dialect, kinds, calls) ==
    IF kinds = <<>> THEN [calls |-> calls, returned |-> FALSE]
    ELSE
        LET k == Head(kinds) IN
        IF k = "text" THEN DeliverLinesNoReturn(dialect, Tail(kinds), Append(calls, "chunk"))
        ELSE IF k = "empty" /\ dialect = "anthropic"
            THEN DeliverLinesNoReturn(dialect, Tail(kinds), Append(calls, "emptyChunk"))
        ELSE IF k = "stop" /\ dialect # "gemini"
            THEN DeliverLinesNoReturn(dialect, Tail(kinds), Append(calls, "done"))
        ELSE DeliverLinesNoReturn(dialect, Tail(kinds), calls)

RECURSIVE DeliverLines(_, _, _)
DeliverLines(dialect, kinds, calls) ==
    IF kinds = <<>> THEN [calls |-> calls, returned |-> FALSE]
    ELSE
        LET k == Head(kinds) IN
        IF k = "text" THEN DeliverLines(dialect, Tail(kinds), Append(calls, "chunk"))
        ELSE IF k = "empty" /\ dialect = "anthropic"
            \* _streamAnthropic sends json.delta.text without testing it
            THEN DeliverLines(dialect, Tail(kinds), Append(calls, "emptyChunk"))
        ELSE IF k = "stop" /\ dialect # "gemini"
            \* _streamGemini knows no end marker: the line fails JSON.parse
            THEN [calls |-> Append(calls, "done"), returned |-> TRUE]
        ELSE DeliverLines(dialect, Tail(kinds), calls)

\* What one read that carries data may hold: its complete lines, in order.
LineBatches ==
    {<<"text">>, <<"bad", "empty">>, <<"stop", "text">>}

InitSvc ==
    /\ activeControllers = {}
    /\ req = [r \in Reqs |-> NoReq]
    /\ abortCount = -1

\* A request's promise is pending on the network (fetch, a body read).
Awaiting(q) == q.pc \in {"fetch", "errbody", "json", "read"}

\* The levels of the warn and error entries logged when a request of this
\* kind ends with error e. chat() and wrappedError log a warning for an
\* AbortError and an error otherwise, and the onError callback of
\* 'ai:chat-stream' does the same; validateProvider throws outside the try
\* of chat(), whose handler logs nothing; the catch of 'ai:test-connection'
\* logs 'Connection test FAILED' at level error for whatever listModels threw.
ErrorLog(kind, e) ==
    CASE kind = "list" -> <<"error">>
      [] kind = "chat" /\ e = "config" -> <<>>
      [] e = "abort" -> <<"warn">>
      [] OTHER -> <<"error">>

\* The request settles with error `e`: chat() throws it, chatStream() hands it
\* to onError (wrappedError, or the catch of chatStream itself), listModels
\* throws it to the handler of 'ai:test-connection'.
SettleError(q, e) ==
    [q EXCEPT !.pc = "settled", !.outcome = Thrown(q, e),
              !.calls = IF q.kind = "stream" THEN Append(q.calls, "error") ELSE q.calls,
              !.log = @ \o ErrorLog(q.kind, Thrown(q, e))]

\* chat(messages, providerName) and chatStream(...), up to the first await:
\* getProviderConfig, validateProvider, then the backend method, which makes
\* its controller and issues fetch().
Call(r, kind, name, cfg) ==
    /\ req[r].kind = "none"
    /\ \A s \in Reqs : s < r => req[s].kind # "none"
    /\ LET q == [NoReq EXCEPT !.kind = kind, !.provider = name, !.cfg = cfg] IN
       IF ValidateProvider(name, cfg) # "ok"
       THEN /\ req' = [req EXCEPT ![r] = SettleError(q, "config")]
            /\ UNCHANGED activeControllers
       ELSE /\ req' = [req EXCEPT ![r] = [MakeController(q) EXCEPT !.pc = "fetch", !.fetches = 1]]
            /\ activeControllers' = activeControllers \cup {r}
    /\ UNCHANGED abortCount
    /\ UNCHANGED notSvc

Chat(r) == \E name \in Providers, cfg \in Configs : Call(r, "chat", name, cfg)

ChatStream(r) == \E name \in Providers, cfg \in Configs : Call(r, "stream", name, cfg)

\* listModels(providerName), called by 'ai:test-connection', up to its first
\* await: no validateProvider; _makeController(15000), then the provider's
\* fetch. The gemini case throws before its fetch when the API key is not
\* set, with its controller made and its timeout armed.
ListModels(r) ==
    /\ req[r].kind = "none"
    /\ \A s \in Reqs : s < r => req[s].kind # "none"
    /\ \E name \in Providers, cfg \in Configs :
        LET q == MakeController([NoReq EXCEPT !.kind = "list", !.provider = name, !.cfg = cfg]) IN
        req' = [req EXCEPT ![r] =
            IF name = "gemini" /\ ~cfg.apiKey THEN SettleError(q, "config")
            ELSE [q EXCEPT !.pc = "fetch", !.fetches = 1]]
    /\ activeControllers' = activeControllers \cup {r}
    /\ UNCHANGED abortCount
    /\ UNCHANGED notSvc

\* await fetch(...) settles: rejected (network), a non-2xx response, or a 2xx one.
FetchSettles(r) ==
    /\ req[r].pc = "fetch" /\ ~req[r].aborted
    /\ \E res \in {"net", "http", "ok"} :
        req' = [req EXCEPT ![r] =
            CASE res = "net" -> SettleError(req[r], "net")
              [] res = "http" -> [req[r] EXCEPT !.pc = "errbody"]
              [] OTHER -> [req[r] EXCEPT !.pc = IF req[r].kind = "stream" THEN "read" ELSE "json"]]
    /\ UNCHANGED <<activeControllers, abortCount>>
    /\ UNCHANGED notSvc

\* await response.text() of a non-2xx response, then throw the API error.
ErrorBodySettles(r) ==
    /\ req[r].pc = "errbody" /\ ~req[r].aborted
    /\ req' = [req EXCEPT ![r] = SettleError(req[r], "http")]
    /\ UNCHANGED <<activeControllers, abortCount>>
    /\ UNCHANGED notSvc

\* await response.json() of chat: the ChatResult is returned, or reading the
\* body or the shape of the reply throws.
JsonSettles(r) ==
    /\ req[r].pc = "json" /\ ~req[r].aborted
    /\ \E res \in {"result", "parse"} :
        req' = [req EXCEPT ![r] =
            IF res = "result" THEN [req[r] EXCEPT !.pc = "settled", !.outcome = "result"]
            ELSE SettleError(req[r], "parse")]
    /\ UNCHANGED <<activeControllers, abortCount>>
    /\ UNCHANGED notSvc

\* await reader.read() of a stream resolves with data: the complete lines are
\* handled in order.
ReadData(r) ==
    /\ req[r].pc = "read" /\ ~req[r].aborted
    /\ req[r].reads < MaxReads
    /\ \E kinds \in LineBatches :
        LET d == DeliverLines(Dialect(req[r].provider), kinds, req[r].calls) IN
        req' = [req EXCEPT ![r] =
            [req[r] EXCEPT !.calls = d.calls, !.reads = @ + 1,
                           !.pc = IF d.returned THEN "settled" ELSE "read",
                           !.outcome = IF d.returned THEN "done" ELSE "none"]]
    /\ UNCHANGED <<activeControllers, abortCount>>
    /\ UNCHANGED notSvc

\* await reader.read() resolves with done: the loop breaks and onDone() is sent.
ReadEnd(r) ==
    /\ req[r].pc = "read" /\ ~req[r].aborted
    /\ req' = [req EXCEPT ![r] =
            [req[r] EXCEPT !.calls = Append(@, "done"), !.pc = "settled", !.outcome = "done"]]
    /\ UNCHANGED <<activeControllers, abortCount>>
    /\ UNCHANGED notSvc

\* await reader.read() rejects with a network error.
ReadFails(r) ==
    /\ req[r].pc = "read" /\ ~req[r].aborted
    /\ req' = [req EXCEPT ![r] = SettleError(req[r], "net")]
    /\ UNCHANGED <<activeControllers, abortCount>>
    /\ UNCHANGED notSvc

\* The pending fetch or body read of an aborted controller rejects with an
\* AbortError; chat() logs a warning and rethrows, the stream sends onError.
\* listModels reads an error body with res.text().catch(() => ''), so there
\* the rejection is swallowed and the API error is thrown.
AbortDelivered(r) ==
    /\ Awaiting(req[r]) /\ req[r].aborted
    /\ req' = [req EXCEPT ![r] =
            SettleError(req[r], IF req[r].kind = "list" /\ req[r].pc = "errbody"
                                THEN "http" ELSE "abort")]
    /\ UNCHANGED <<activeControllers, abortCount>>
    /\ UNCHANGED notSvc

\* The setTimeout callback of _makeController: controller.abort(), cleanup(),
\* and the 'Request timed out' warning. Nothing cancels the timer when the
\* request settles: only the controller's abort event does.
TimerFires(r) ==
    /\ req[r].timer = "armed"
    /\ req' = [req EXCEPT ![r] =
            [ControllerAbort(req[r]) EXCEPT !.timer = "fired", !.log = Append(@, "warn")]]
    /\ activeControllers' = activeControllers \ {r}
    /\ UNCHANGED abortCount
    /\ UNCHANGED notSvc

\* abort(): abort every controller of the live set, clear the set, return the count.
AbortKeepsLiveSet ==
    /\ req' = [r \in Reqs |->
            IF r \in activeControllers THEN ControllerAbort(req[r]) ELSE req[r]]
    /\ activeControllers' = activeControllers
    /\ abortCount' = Cardinality(activeControllers)
    /\ UNCHANGED notSvc

Abort ==
    /\ req' = [r \in Reqs |->
            IF r \in activeControllers THEN ControllerAbort(req[r]) ELSE req[r]]
    /\ activeControllers' = {}
    /\ abortCount' = Cardinality(activeControllers)
    /\ UNCHANGED notSvc

NextSvc ==
    \/ \E r \in Reqs : Chat(r)
    \/ \E r \in Reqs : ChatStream(r)
    \/ \E r \in Reqs : FetchSettles(r)
    \/ \E r \in Reqs : ErrorBodySettles(r)
    \/ \E r \in Reqs : JsonSettles(r)
    \/ \E r \in Reqs : ReadData(r)
    \/ \E r \in Reqs : ReadEnd(r)
    \/ \E r \in Reqs : ReadFails(r)
    \/ \E r \in Reqs : AbortDelivered(r)
    \/ \E r \in Reqs : TimerFires(r)
    \/ Abort

\* The settings panel testing connections: 'ai:test-connection' calls
\* listModels; the user may press stop, the 15 s timeout may fire.
NextTest ==
    \/ \E r \in Reqs : ListModels(r)
    \/ \E r \in Reqs : FetchSettles(r)
    \/ \E r \in Reqs : ErrorBodySettles(r)
    \/ \E r \in Reqs : JsonSettles(r)
    \/ \E r \in Reqs : AbortDelivered(r)
    \/ \E r \in Reqs : TimerFires(r)
    \/ Abort

\* ---------------------------------------------------------- stream decoders
\* A response body is a sequence of bytes; the model keeps the bytes the
\* decoders tell apart:
\*   NL  "\n"            SP  a blank or "\r"
\*   P1 P2  the two halves of the prefix "data: "
\*   {  }   the start and the end of a JSON object
\*   t   the member that makes the object a text delta
\*   s   the member that makes it the end marker (message_stop, done: true)
\*   a   one byte of text       u1 u2  the two bytes of one two-byte character
\*   D   the sentinel [DONE]
\* Decoded text has the same symbols, with U for the two-byte character and
\* ? for U+FFFD.
StreamDialects == {"openai", "anthropic", "ollama"}

TextChars == {"a", "U", "?"}

OpenAIForms ==
    { <<"P1", "P2", "{", "t", "u1", "u2", "}">>,
      <<"SP", "P1", "P2", "{", "t", "a", "}", "SP">>,
      <<"P1", "P2", "{", "t", "}">>,
      <<"P1", "P2", "D">>,
      <<>> }

AnthropicForms ==
    { <<"P1", "P2", "{", "t", "u1", "u2", "}">>,
      <<"SP", "P1", "P2", "{", "t", "a", "}", "SP">>,
      <<"P1", "P2", "{", "t", "}">>,
      <<"P1", "P2", "{", "s", "}">>,
      <<>> }

OllamaForms ==
    { <<"{", "t", "u1", "u2", "}">>,
      <<"{", "t", "a", "}", "SP">>,
      <<"{", "t", "a", "s", "}">>,
      <<"{", "s", "}">>,
      <<>> }

LineForms(dialect) ==
    CASE dialect = "openai" -> OpenAIForms
      [] dialect = "anthropic" -> AnthropicForms
      [] OTHER -> OllamaForms

\* The lines fs[1..n], each ended by a newline, the last one only if lastNL.
RECURSIVE JoinLines(_, _, _)
JoinLines(fs, n, lastNL) ==
    IF n = 0 THEN <<>>
    ELSE JoinLines(fs, n - 1, TRUE) \o fs[n] \o (IF lastNL THEN <<"NL">> ELSE <<>>)

Streams(dialect) ==
    UNION { { JoinLines(fs, n, lastNL) :
                fs \in [1..n -> LineForms(dialect)], lastNL \in BOOLEAN } :
            n \in 0..MaxLines }

\* decoder.decode(value, {stream: true}): an incomplete character at the end
\* of the chunk is held back for the next call.
RECURSIVE TextDecode(_, _)
TextDecode(pending, bytes) ==
    LET b == pending \o bytes IN
    IF b = <<>> THEN [chars |-> <<>>, pending |-> <<>>]
    ELSE IF Head(b) = "u1" /\ Len(b) = 1 THEN [chars |-> <<>>, pending |-> b]
    ELSE IF Head(b) = "u1" /\ b[2] = "u2"
        THEN LET r == TextDecode(<<>>, SubSeq(b, 3, Len(b))) IN
             [chars |-> <<"U">> \o r.chars, pending |-> r.pending]
    ELSE LET r == TextDecode(<<>>, Tail(b)) IN
         [chars |-> <<IF Head(b) \in {"u1", "u2"} THEN "?" ELSE Head(b)>> \o r.chars,
          pending |-> r.pending]

\* buffer.split('\n')
RECURSIVE SplitLines(_)
SplitLines(s) ==
    IF \A i \in DOMAIN s : s[i] # "NL" THEN <<s>>
    ELSE LET i == CHOOSE k \in DOMAIN s :
                    s[k] = "NL" /\ \A j \in 1..(k - 1) : s[j] # "NL" IN
         <<SubSeq(s, 1, i - 1)>> \o SplitLines(SubSeq(s, i + 1, Len(s)))

\* buffer = lines.pop() || ''
LastLineDropped(lines) == <<>>

LastLine(lines) == lines[Len(lines)]

\* String.prototype.trim
RECURSIVE Trim(_)
Trim(s) ==
    IF s = <<>> THEN s
    ELSE IF Head(s) = "SP" THEN Trim(Tail(s))
    ELSE IF s[Len(s)] = "SP" THEN Trim(SubSeq(s, 1, Len(s) - 1))
    ELSE s

\* trimmed.startsWith('data: ')
StartsWithData(s) == Len(s) >= 2 /\ s[1] = "P1" /\ s[2] = "P2"

\* JSON.parse of a payload, and what the decoders read from the object.
ParseJson(data) ==
    LET d == Trim(data)
        inner == SubSeq(d, 2, Len(d) - 1)
        ok == /\ Len(d) >= 2 /\ d[1] = "{" /\ d[Len(d)] = "}"
              /\ \A i \in DOMAIN inner : inner[i] \in TextChars \cup {"t", "s"}
    IN [ok |-> ok,
        isDelta |-> ok /\ \E i \in DOMAIN inner : inner[i] = "t",
        isStop |-> ok /\ \E i \in DOMAIN inner : inner[i] = "s",
        text |-> IF ok THEN SelectSeq(inner, LAMBDA c : c \in TextChars) ELSE <<>>]

\* The body of the for-loop for one complete line: the callbacks it invokes
\* and whether the decoder returns.
HandleLine(dialect, line) ==
    LET trimmed == Trim(line)
        skip == [calls |-> <<>>, returned |-> FALSE]
    IN
    IF dialect = "ollama" THEN
        IF trimmed = <<>> THEN skip
        ELSE LET json == ParseJson(line) IN
             IF ~json.ok THEN skip
             ELSE [calls |-> (IF json.text # <<>> THEN << <<"chunk", json.text>> >> ELSE <<>>)
                             \o (IF json.isStop THEN << <<"done">> >> ELSE <<>>),
                   returned |-> json.isStop]
    ELSE IF trimmed = <<>> \/ ~StartsWithData(trimmed) THEN skip
    ELSE LET data == SubSeq(trimmed, 3, Len(trimmed))
             json == ParseJson(data) IN
         IF dialect = "openai" THEN
             IF data = <<"D">> THEN [calls |-> << <<"done">> >>, returned |-> TRUE]
             ELSE IF json.ok /\ json.text # <<>>
                 THEN [calls |-> << <<"chunk", json.text>> >>, returned |-> FALSE]
             ELSE skip
         ELSE
             IF ~json.ok THEN skip
             ELSE [calls |-> (IF json.isDelta THEN << <<"chunk", json.text>> >> ELSE <<>>)
                             \o (IF json.isStop THEN << <<"done">> >> ELSE <<>>),
                   returned |-> json.isStop]

\* for (const line of lines) { ... }: the lines in order, up to a return.
RECURSIVE HandleLinesNewestFirst(_, _, _)
HandleLinesNewestFirst(dialect, lines, calls) ==
    IF lines = <<>> THEN [calls |-> calls, returned |-> FALSE]
    ELSE LET h == HandleLine(dialect, Head(lines)) IN
         IF h.returned THEN [calls |-> h.calls \o calls, returned |-> TRUE]
         ELSE HandleLinesNewestFirst(dialect, Tail(lines), h.calls \o calls)

RECURSIVE HandleLines(_, _, _)
HandleLines(dialect, lines, calls) ==
    IF lines = <<>> THEN [calls |-> calls, returned |-> FALSE]
    ELSE LET h == HandleLine(dialect, Head(lines)) IN
         IF h.returned THEN [calls |-> calls \o h.calls, returned |-> TRUE]
         ELSE HandleLines(dialect, Tail(lines), calls \o h.calls)

\* One iteration of while (true) for a read that carries `value`.
DecodeChunk(d, value) ==
    LET t == TextDecode(d.pending, value)
        lines == SplitLines(d.buffer \o t.chars)
        h == HandleLines(d.dialect, SubSeq(lines, 1, Len(lines) - 1), d.calls)
    IN [d EXCEPT !.pending = t.pending,
                 !.buffer = LastLine(lines),
                 !.calls = h.calls,
                 !.pos = @ + Len(value),
                 !.cut = IF t.pending # <<>> \/ d.cut = "char" THEN "char"
                         ELSE IF LastLine(lines) # <<>> \/ d.cut = "line" THEN "line"
                         ELSE "none",
                 !.pc = IF h.returned THEN "finished" ELSE "reading"]

\* The read after the last byte: done (break, then onDone()) or a rejection
\* (the catch sends onError).
DecodeEnd(d) ==
    [d EXCEPT !.calls = Append(@, IF d.ending = "eof" THEN <<"done">> ELSE <<"error">>),
              !.pc = "finished"]

NewDecoder(dialect, stream, ending) ==
    [dialect |-> dialect, stream |-> stream, ending |-> ending, pos |-> 0,
     buffer |-> <<>>, pending |-> <<>>, calls |-> <<>>, pc |-> "reading",
     \* history: did a read end inside a line ("line"), inside a character ("char")?
     cut |-> "none"]

NoDecoder == [NewDecoder("openai", <<>>, "eof") EXCEPT !.pc = "off"]

InitDec ==
    dec \in UNION { { NewDecoder(dialect, stream, ending) :
                        stream \in Streams(dialect), ending \in {"eof", "fail"} } :
                     dialect \in StreamDialects }

\* reader.read() resolves with the next n bytes of the body.
DecoderRead ==
    /\ dec.pc = "reading"
    /\ \E n \in 1..(Len(dec.stream) - dec.pos) :
        dec' = DecodeChunk(dec, SubSeq(dec.stream, dec.pos + 1, dec.pos + n))
    /\ UNCHANGED notDec

\* reader.read() after the last byte.
DecoderEnd ==
    /\ dec.pc = "reading" /\ dec.pos = Len(dec.stream)
    /\ dec' = DecodeEnd(dec)
    /\ UNCHANGED notDec

NextDec == DecoderRead \/ DecoderEnd

\* ------------------------------------------------- command grammar parser
\* A text is a sequence of characters; the model keeps the characters the
\* parser tells apart. A command keyword is one symbol, w is a run of other
\* word characters, x a character that is neither a word character nor any
\* of the listed ones:
\*   NL "\n"   SP blank   BT "`"   Q '"'   ( ) , -   and the digits
Keywords ==
    {"CLICK_ELEMENT", "CLICK", "TYPE", "FILL", "PRESS", "SCROLL", "NAVIGATE", "WAIT", "FIND"}

DigitChars == {"0", "1", "2", "3", "4", "5", "6", "7", "8", "9"}

\* \w
WordChars == Keywords \cup DigitChars \cup {"w", "_"}

Fence == <<"BT", "BT", "BT">>

\* The first index >= from where s holds ```, or 0.
FindFence(s, from) ==
    LET hits == {i \in from..(Len(s) - 2) : SubSeq(s, i, i + 2) = Fence} IN
    IF hits = {} THEN 0 ELSE CHOOSE i \in hits : \A j \in hits : i <= j

RECURSIVE SkipWhile(_, _, _)
SkipWhile(s, i, set) ==
    IF i <= Len(s) /\ s[i] \in set THEN SkipWhile(s, i + 1, set) ELSE i

\* block.replace(/```\w*\n?/, '').replace(/```/, '')
ReplaceBlock(block) ==
    LET k == SkipWhile(block, 4, WordChars)
        k2 == IF k <= Len(block) /\ block[k] = "NL" THEN k + 1 ELSE k
        r1 == SubSeq(block, k2, Len(block))
        i == FindFence(r1, 1)
    IN IF i = 0 THEN r1 ELSE SubSeq(r1, 1, i - 1) \o SubSeq(r1, i + 3, Len(r1))

\* text.replace(/```[\s\S]*?```/g, block => ...)
RECURSIVE StripFences(_)
StripFences(s) ==
    LET i == FindFence(s, 1)
        j == IF i = 0 THEN 0 ELSE FindFence(s, i + 3)
    IN IF j = 0 THEN s
       ELSE SubSeq(s, 1, i - 1) \o ReplaceBlock(SubSeq(s, i, j + 2))
            \o StripFences(SubSeq(s, j + 3, Len(s)))

\* The command patterns, in the order parseCommands tries them. An atom is a
\* literal character, ws (\s*), int (\d+), sint (-?\d+) or str ("([^"]*)").
Lit(c) == [a |-> "lit", c |-> c]

Ws == [a |-> "ws", c |-> ""]

Arg(kind) == [a |-> kind, c |-> ""]

OneArg(kw, kind) == <<Lit(kw), Ws, Lit("("), Ws, Arg(kind), Ws, Lit(")")>>

TwoArgs(kw, kind) ==
    <<Lit(kw), Ws, Lit("("), Ws, Arg(kind), Ws, Lit(","), Ws, Arg(kind), Ws, Lit(")")>>

CommandPatterns ==
    << [type |-> "click", re |-> TwoArgs("CLICK", "int")],
       [type |-> "click_element", re |-> OneArg("CLICK_ELEMENT", "str")],
       [type |-> "type", re |-> OneArg("TYPE", "str")],
       [type |-> "press", re |-> OneArg("PRESS", "str")],
       [type |-> "scroll", re |-> OneArg("SCROLL", "sint")],
       [type |-> "navigate", re |-> OneArg("NAVIGATE", "str")],
       [type |-> "wait", re |-> OneArg("WAIT", "int")],
       [type |-> "find", re |-> OneArg("FIND", "str")],
       [type |-> "fill", re |-> TwoArgs("FILL", "str")] >>

DigitValue(d) == CHOOSE n \in 0..9 : ToString(n) = d

\* +m[k]
RECURSIVE ToNumberUnsigned(_)
ToNumberUnsigned(ds) ==
    IF ds = <<>> THEN 0
    ELSE IF Head(ds) = "-" THEN ToNumberUnsigned(Tail(ds))
    ELSE 10 * ToNumberUnsigned(SubSeq(ds, 1, Len(ds) - 1)) + DigitValue(ds[Len(ds)])

RECURSIVE ToNumber(_)
ToNumber(ds) ==
    IF ds = <<>> THEN 0
    ELSE IF Head(ds) = "-" THEN 0 - ToNumber(Tail(ds))
    ELSE 10 * ToNumber(SubSeq(ds, 1, Len(ds) - 1)) + DigitValue(ds[Len(ds)])

\* The match of the atoms at index i of s: whether it succeeds, its captures.
RECURSIVE MatchFrom(_, _, _, _)
MatchFrom(atoms, s, i, caps) ==
    IF atoms = <<>> THEN [ok |-> TRUE, caps |-> caps]
    ELSE
        LET h == Head(atoms)
            fail == [ok |-> FALSE, caps |-> <<>>]
        IN
        CASE h.a = "lit" ->
                IF i <= Len(s) /\ s[i] = h.c THEN MatchFrom(Tail(atoms), s, i + 1, caps) ELSE fail
          [] h.a = "ws" -> MatchFrom(Tail(atoms), s, SkipWhile(s, i, {"SP"}), caps)
          [] h.a = "int" ->
                LET j == SkipWhile(s, i, DigitChars) IN
                IF j > i THEN MatchFrom(Tail(atoms), s, j, Append(caps, ToNumber(SubSeq(s, i, j - 1))))
                ELSE fail
          [] h.a = "sint" ->
                LET k == IF i <= Len(s) /\ s[i] = "-" THEN i + 1 ELSE i
                    j == SkipWhile(s, k, DigitChars) IN
                IF j > k THEN MatchFrom(Tail(atoms), s, j, Append(caps, ToNumber(SubSeq(s, i, j - 1))))
                ELSE fail
          [] OTHER ->
                LET closing == {j \in (i + 1)..Len(s) : s[j] = "Q"} IN
                IF i <= Len(s) /\ s[i] = "Q" /\ closing # {}
                THEN LET j == CHOOSE k \in closing : \A l \in closing : k <= l IN
                     MatchFrom(Tail(atoms), s, j + 1, Append(caps, SubSeq(s, i + 1, j - 1)))
                ELSE fail

\* trimmed.match(re): the leftmost match anywhere in the line, or no match.
RegexMatch(re, line) ==
    LET hits == {i \in DOMAIN line : MatchFrom(re, line, i, <<>>).ok} IN
    IF hits = {} THEN [ok |-> FALSE, caps |-> <<>>]
    ELSE MatchFrom(re, line, CHOOSE i \in hits : \A j \in hits : i <= j, <<>>)

\* The if / else-if chain over one trimmed line, from pattern k on.
RECURSIVE MatchLine(_, _)
MatchLine(trimmed, k) ==
    IF k > Len(CommandPatterns) THEN <<>>
    ELSE LET m == RegexMatch(CommandPatterns[k].re, trimmed) IN
         IF m.ok THEN << [type |-> CommandPatterns[k].type, args |-> m.caps] >>
         ELSE MatchLine(trimmed, k + 1)

RECURSIVE ParseLines(_)
ParseLines(lines) ==
    IF lines = <<>> THEN <<>>
    ELSE LET trimmed == Trim(Head(lines)) IN
         (IF trimmed = <<>> THEN <<>> ELSE MatchLine(trimmed, 1)) \o ParseLines(Tail(lines))

\* parseCommands(text)
ParseCommands(text) == ParseLines(SplitLines(StripFences(text)))

\* The filter of cleanMessageText: /^(CLICK_ELEMENT|CLICK|...|FIND)\s*\(/
IsCommandLine(t) ==
    /\ t # <<>> /\ t[1] \in Keywords
    /\ LET j == SkipWhile(t, 2, {"SP"}) IN j <= Len(t) /\ t[j] = "("

\* .join('\n')
RECURSIVE JoinWithNewlines(_)
JoinWithNewlines(lines) ==
    IF lines = <<>> THEN <<>>
    ELSE IF Len(lines) = 1 THEN lines[1]
    ELSE Head(lines) \o <<"NL">> \o JoinWithNewlines(Tail(lines))

\* .replace(/\n{3,}/g, '\n\n')
RECURSIVE CollapseNewlines(_)
CollapseNewlines(s) ==
    IF s = <<>> THEN s
    ELSE IF Head(s) # "NL" THEN <<Head(s)>> \o CollapseNewlines(Tail(s))
    ELSE LET j == SkipWhile(s, 1, {"NL"}) IN
         (IF j - 1 >= 3 THEN <<"NL", "NL">> ELSE SubSeq(s, 1, j - 1))
         \o CollapseNewlines(SubSeq(s, j, Len(s)))

\* .trim() of the whole text
RECURSIVE TrimText(_)
TrimText(s) ==
    IF s = <<>> THEN s
    ELSE IF Head(s) \in {"SP", "NL"} THEN TrimText(Tail(s))
    ELSE IF s[Len(s)] \in {"SP", "NL"} THEN TrimText(SubSeq(s, 1, Len(s) - 1))
    ELSE s

\* cleanMessageText(text)
CleanMessageText(text) ==
    TrimText(CollapseNewlines(JoinWithNewlines(
        SelectSeq(SplitLines(text), LAMBDA line : ~IsCommandLine(Trim(line))))))

\* The pieces response texts are built from.
TextPieces ==
    { <<"CLICK", "(", "1", "0", ",", "SP", "2", ")">>,
      <<"TYPE", "(", "Q">>,
      <<"Q", ")">>,
      <<"FIND", "(", "Q", "x", "Q", ")">>,
      <<"w">>,
      <<"SP">>,
      <<"NL">>,
      <<"BT", "BT", "BT">> }

RECURSIVE Concat(_, _)
Concat(ps, n) == IF n = 0 THEN <<>> ELSE Concat(ps, n - 1) \o ps[n]

Texts == UNION { { Concat(ps, n) : ps \in [1..n -> TextPieces] } : n \in 0..MaxPieces }

\* The text inside a code fence, with the language tag `lang` (<<>>: none).
WrapInFence(text, lang) == Fence \o lang \o <<"NL">> \o text \o <<"NL">> \o Fence

NewParse(text) ==
    [input |-> text, text |-> text, via |-> "none", pc |-> "input", commands |-> <<>>]

NoParse == [NewParse(<<>>) EXCEPT !.pc = "off"]

\* Four lines as a model may send them:
\*   CLICK_ELEMENT("button.submit")     FILL("#email", "a@b.com")
\*   SCROLL(-300)                       Let's click the button now
ClickElementLine == <<"CLICK_ELEMENT", "(", "Q", "w", "x", "w", "Q", ")">>

FillLine ==
    <<"FILL", "(", "Q", "x", "w", "Q", ",", "SP", "Q", "w", "x", "w", "x", "w", "Q", ")">>

ScrollLine == <<"SCROLL", "(", "-", "3", "0", "0", ")">>

ProseLine == <<"w", "x", "w", "SP", "w", "SP", "w", "SP", "w", "SP", "w">>

\* The four lines as one response text.
AllLines == JoinWithNewlines(<<ProseLine, ClickElementLine, FillLine, ScrollLine>>)

\* One line that holds two commands:  FILL("#q", "cats") PRESS("Enter")
FillPressLine ==
    <<"FILL", "(", "Q", "x", "w", "Q", ",", "SP", "Q", "w", "Q", ")", "SP",
      "PRESS", "(", "Q", "w", "Q", ")">>

LiteralTexts == {ClickElementLine, FillLine, ScrollLine, ProseLine, AllLines, FillPressLine}

InitPar == par \in {NewParse(t) : t \in Texts \cup LiteralTexts}

\* The text is shown in a message bubble: cleanMessageText.
Clean ==
    /\ par.pc = "input" /\ par.via = "none"
    /\ par' = [par EXCEPT !.text = CleanMessageText(par.text), !.via = "clean"]
    /\ UNCHANGED notPar

\* The model sends the same text inside a code fence.
Fenced ==
    /\ par.pc = "input" /\ par.via = "none"
    /\ \E lang \in {<<>>, <<"w">>} :
        par' = [par EXCEPT !.text = WrapInFence(par.text, lang), !.via = "fence"]
    /\ UNCHANGED notPar

\* parseCommands on the text at hand.
Parse ==
    /\ par.pc = "input"
    /\ par' = [par EXCEPT !.commands = ParseCommands(par.text), !.pc = "parsed"]
    /\ UNCHANGED notPar

NextPar == Clean \/ Fenced \/ Parse

\* ------------------------------------------------------- automation runs
RunIds == 1..MaxRuns

NoRun == [pc |-> "idle", n |-> 0, i |-> 0, failed |-> {}]

\* cmds.map(cmd => ({detail, status: 'pending', duration: null}))
InitialSteps(n) == [k \in 1..n |-> [status |-> "pending", duration |-> "null"]]

\* setAutomationSteps(prev => prev.map((s, i) => i === stepIndex ? {...s, ...update} : s)),
\* for the three updates the run loop sends. A step index the list does not
\* have changes nothing.
UpdateRunning(steps, k) ==
    [j \in DOMAIN steps |-> IF j = k THEN [steps[j] EXCEPT !.status = "running"] ELSE steps[j]]

UpdateSettled(steps, k, status) ==
    [j \in DOMAIN steps |-> IF j = k THEN [status |-> status, duration |-> "ms"] ELSE steps[j]]

InitRun ==
    /\ automationSteps = <<>>
    /\ isAutomating = FALSE
    /\ runningStepIndex = 0
    /\ run = [r \in RunIds |-> NoRun]

\* handleLoadAutomation(item) with item.commands of length n (the other
\* starters, onStreamEnd, handleExecuteTask and handleRunTestCase, do the
\* same): the step list is replaced, and executeAutomationCommands runs up
\* to its first await, the 150 ms after showOverlay(). No starter looks at
\* isAutomating or at a run still under way.
LoadAutomation(r, n) ==
    /\ run[r].pc = "idle"
    /\ \A s \in RunIds : s < r => run[s].pc # "idle"
    /\ automationSteps' = InitialSteps(n)
    /\ isAutomating' = TRUE
    /\ run' = [run EXCEPT ![r] = [NoRun EXCEPT !.pc = "overlay", !.n = n]]
    /\ UNCHANGED runningStepIndex
    /\ UNCHANGED notRun

\* The top of the for-loop body for command k: setRunningStepIndex(k),
\* onStepUpdate(k, {status: 'running'}) and the automation call, awaited.
Dispatch(r, k, steps) ==
    /\ runningStepIndex' = k
    /\ automationSteps' = UpdateRunning(steps, k)
    /\ run' = [run EXCEPT ![r] = [@ EXCEPT !.pc = "call", !.i = k]]
    /\ UNCHANGED isAutomating

\* The 150 ms before the first command, or the 250 ms between two commands, is over.
DelayElapsed(r) ==
    /\ run[r].pc \in {"overlay", "settle"}
    /\ Dispatch(r, run[r].i + 1, automationSteps)
    /\ UNCHANGED notRun

\* The awaited automation call of command i settles: it resolves to a
\* success payload ("ok"), resolves to {error} ("error") or rejects ("throw").
CallSettles(r, outcome) ==
    /\ run[r].pc = "call"
    /\ LET k == run[r].i
           status == IF outcome = "ok" THEN "done" ELSE "error"
           steps == UpdateSettled(automationSteps, k, status)
           failed == IF outcome = "ok" THEN run[r].failed ELSE run[r].failed \cup {k}
       IN
       IF k = run[r].n
       THEN \* the loop is over: setRunningStepIndex(-1), then the 600 ms linger
            /\ automationSteps' = steps
            /\ runningStepIndex' = 0
            /\ run' = [run EXCEPT ![r] = [@ EXCEPT !.pc = "linger", !.failed = failed]]
            /\ UNCHANGED isAutomating
       ELSE IF outcome = "throw"
       THEN \* the catch block: the next iteration starts at once
            /\ runningStepIndex' = k + 1
            /\ automationSteps' = UpdateRunning(steps, k + 1)
            /\ run' = [run EXCEPT ![r] = [@ EXCEPT !.pc = "call", !.i = k + 1, !.failed = failed]]
            /\ UNCHANGED isAutomating
       ELSE /\ automationSteps' = steps
            /\ run' = [run EXCEPT ![r] = [@ EXCEPT !.pc = "settle", !.failed = failed]]
            /\ UNCHANGED <<runningStepIndex, isAutomating>>
    /\ UNCHANGED notRun

\* The 600 ms linger is over: hideOverlay(), the promise resolves and the
\* starter's .then() sets isAutomating to false.
LingerElapsed(r) ==
    /\ run[r].pc = "linger"
    /\ run' = [run EXCEPT ![r] = [@ EXCEPT !.pc = "finished"]]
    /\ isAutomating' = FALSE
    /\ UNCHANGED <<automationSteps, runningStepIndex>>
    /\ UNCHANGED notRun

NextRun ==
    \/ \E r \in RunIds, n \in 1..MaxCmds : LoadAutomation(r, n)
    \/ \E r \in RunIds : DelayElapsed(r)
    \/ \E r \in RunIds, outcome \in {"ok", "error", "throw"} : CallSettles(r, outcome)
    \/ \E r \in RunIds : LingerElapsed(r)

\* ------------------------------------------------- automation IPC surface
\* What webContents.debugger.attach() does when the debugger is not yet
\* attached: it succeeds, throws 'Already attached', or throws something else.
AttachOutcomes == {"ok", "already", "fail"}

\* What one executeJavaScript / loadURL call does.
JsOutcomes == {"ok", "throw"}

\* What the element lookup of clickElement / fillInput finds.
ElementOutcomes == {"found", "missing", "hidden"}

\* _ensureDebugger(webContents): whether CDP can be used; the debugger is
\* then recorded as attached.
EnsureDebugger(attached, attach) == attached \/ attach \in {"ok", "already"}

\* How a method of BrowserAutomation ends: it throws, or returns a value that
\* carries an error member or does not; with the debugger's state, what
\* became of the protocol tier ("untried", "unavailable", "ok", "raised"),
\* the tier that was last tried ("cdp", "js", "none") and what reached the
\* page: complete clicks, characters inserted.
Outcome(threw, error, attached, cdp, via, clicks, inserted) ==
    [threw |-> threw, error |-> error, attached |-> attached, cdp |-> cdp,
     via |-> via, clicks |-> clicks, inserted |-> inserted]

\* What sends a method to its fallback script: no debugger, or a CDP command
\* that rejected.
CdpTier(hasCDP) == IF hasCDP THEN "raised" ELSE "unavailable"

\* The shared shape of click, pressKey and scroll: the CDP commands, and on
\* a CDP failure (command failAt of them rejects) or without CDP the
\* JavaScript fallback. `n` is what a complete delivery counts as clicks.
CdpThenJsAlways(attached, attach, failAt, js, n) ==
    LET hasCDP == EnsureDebugger(attached, attach)
        cdp == IF hasCDP /\ failAt = 0 THEN "ok" ELSE CdpTier(hasCDP)
    IN
    IF js = "throw" THEN Outcome(TRUE, FALSE, hasCDP, cdp, "js", 0, 0)
    ELSE Outcome(FALSE, FALSE, hasCDP, cdp, "js", n, 0)

CdpThenJs(attached, attach, failAt, js, n) ==
    LET hasCDP == EnsureDebugger(attached, attach) IN
    IF hasCDP /\ failAt = 0 THEN Outcome(FALSE, FALSE, hasCDP, "ok", "cdp", n, 0)
    ELSE IF js = "throw" THEN Outcome(TRUE, FALSE, hasCDP, CdpTier(hasCDP), "js", 0, 0)
    ELSE Outcome(FALSE, FALSE, hasCDP, CdpTier(hasCDP), "js", n, 0)

\* click(webContents, x, y): mouseMoved, mousePressed, mouseReleased.
Click(attached, attach, failAt, js) == CdpThenJs(attached, attach, failAt, js, 1)

\* pressKey(webContents, key): keyDown, char, keyUp.
PressKey(attached, attach, failAt, js) == CdpThenJs(attached, attach, failAt, js, 0)

\* scroll(webContents, ...): one mouseWheel event.
Scroll(attached, attach, failAt, js) == CdpThenJs(attached, attach, failAt, js, 0)

\* type(webContents, text) for a text of len characters: Input.insertText
\* per character; when insertText number failAt rejects, or without CDP, the
\* fallback script inserts the whole text.
Type(attached, attach, len, failAt, js) ==
    LET hasCDP == EnsureDebugger(attached, attach)
        sent == IF hasCDP /\ failAt > 0 THEN failAt - 1 ELSE 0
    IN
    IF hasCDP /\ failAt = 0 THEN Outcome(FALSE, FALSE, hasCDP, "ok", "cdp", 0, len)
    ELSE IF js = "throw" THEN Outcome(TRUE, FALSE, hasCDP, CdpTier(hasCDP), "js", 0, sent)
    ELSE Outcome(FALSE, FALSE, hasCDP, CdpTier(hasCDP), "js", 0, sent + len)

\* clickElement(webContents, selector): the lookup script, then the CDP mouse
\* events or the fallback script.
ClickElement(attached, attach, lookup, elem, failAt, js) ==
    IF lookup = "throw" THEN Outcome(TRUE, FALSE, attached, "untried", "none", 0, 0)
    ELSE IF elem # "found" THEN Outcome(FALSE, TRUE, attached, "untried", "none", 0, 0)
    ELSE CdpThenJs(attached, attach, failAt, js, 1)

\* fillInput(webContents, selector, value): the focus script, then select-all,
\* delete and insertText over CDP, or the fallback script, whose own lookup
\* may fail (`again`). The value has len characters.
FillInput(attached, attach, len, lookup, elem, failAt, js, again) ==
    IF lookup = "throw" THEN Outcome(TRUE, FALSE, attached, "untried", "none", 0, 0)
    ELSE IF elem = "missing" THEN Outcome(FALSE, TRUE, attached, "untried", "none", 0, 0)
    ELSE
        LET hasCDP == EnsureDebugger(attached, attach) IN
        IF hasCDP /\ failAt = 0 THEN Outcome(FALSE, FALSE, hasCDP, "ok", "cdp", 1, len)
        ELSE IF js = "throw" THEN Outcome(TRUE, FALSE, hasCDP, CdpTier(hasCDP), "js", 1, 0)
        ELSE IF again = "missing" THEN Outcome(FALSE, TRUE, hasCDP, CdpTier(hasCDP), "js", 1, 0)
        ELSE Outcome(FALSE, FALSE, hasCDP, CdpTier(hasCDP), "js", 1, len)

\* catch (err) { return { error: err.message } }
CatchRethrows(out) == [kind |-> "rejected", error |-> "none"]

Catch(out) == [kind |-> "error", error |-> "string"]

\* What a handler's promise settles with, for the outcome of its try block.
Settle(out) ==
    IF out.threw THEN Catch(out)
    ELSE IF out.error THEN [kind |-> "error", error |-> "string"]
    ELSE [kind |-> "success", error |-> "none"]

\* The reply of a handler: the channel, whether there was an active tab, the
\* length of the text it was asked to insert, whether an exception reached
\* the handler's catch, and what reached the page.
Reply(op, hadView, asked, out) ==
    [op |-> op, hadView |-> hadView, asked |-> asked, threw |-> out.threw,
     kind |-> Settle(out).kind, error |-> Settle(out).error,
     attached |-> out.attached, cdp |-> out.cdp,
     via |-> out.via, clicks |-> out.clicks, inserted |-> out.inserted]

\* if (!view) return { error: 'No active tab' }
NoActiveTab(op, asked) ==
    [op |-> op, hadView |-> FALSE, asked |-> asked, threw |-> FALSE,
     kind |-> "error", error |-> "string", attached |-> FALSE,
     cdp |-> "untried", via |-> "none", clicks |-> 0, inserted |-> 0]

NoReply == [NoActiveTab("none", 0) EXCEPT !.kind = "none", !.error = "none"]

\* activeTabId is null until the first tab is created.
InitIpc ==
    /\ view = FALSE
    /\ debuggerAttached = FALSE
    /\ reply = NoReply

\* A handler that has a view runs its try block to the outcome `out`.
Handle(op, asked, out) ==
    /\ view
    /\ reply' = Reply(op, TRUE, asked, out)
    /\ debuggerAttached' = out.attached
    /\ UNCHANGED view
    /\ UNCHANGED notIpc

\* Any of the handlers that look for the active view, with no tab open.
HandleNoView ==
    /\ ~view
    /\ \E op \in {"click", "type", "pressKey", "scroll", "getElements",
                  "clickElement", "fillInput", "navigate"} :
        \E len \in 1..MaxText :
            reply' = NoActiveTab(op, IF op \in {"type", "fillInput"} THEN len ELSE 0)
    /\ UNCHANGED <<view, debuggerAttached>>
    /\ UNCHANGED notIpc

\* ipcMain.handle('automation:click'): highlightElement, 150 ms, click.
AutomationClick ==
    \E highlight \in JsOutcomes, attach \in AttachOutcomes, failAt \in 0..3, js \in JsOutcomes :
        Handle("click", 0,
               IF highlight = "throw"
               THEN Outcome(TRUE, FALSE, debuggerAttached, "untried", "none", 0, 0)
               ELSE Click(debuggerAttached, attach, failAt, js))

\* ipcMain.handle('automation:type')
AutomationType ==
    \E attach \in AttachOutcomes, len \in 1..MaxText, failAt \in 0..MaxText, js \in JsOutcomes :
        /\ failAt <= len
        /\ Handle("type", len, Type(debuggerAttached, attach, len, failAt, js))

\* ipcMain.handle('automation:press-key')
AutomationPressKey ==
    \E attach \in AttachOutcomes, failAt \in 0..3, js \in JsOutcomes :
        Handle("pressKey", 0, PressKey(debuggerAttached, attach, failAt, js))

\* ipcMain.handle('automation:scroll')
AutomationScroll ==
    \E attach \in AttachOutcomes, failAt \in 0..1, js \in JsOutcomes :
        Handle("scroll", 0, Scroll(debuggerAttached, attach, failAt, js))

\* ipcMain.handle('automation:get-elements'): one script.
AutomationGetElements ==
    \E js \in JsOutcomes :
        Handle("getElements", 0,
               Outcome(js = "throw", FALSE, debuggerAttached, "untried", "js", 0, 0))

\* ipcMain.handle('automation:click-element'): clickElement, then
\* highlightElement when the result has non-zero coordinates.
AutomationClickElement ==
    \E attach \in AttachOutcomes, lookup \in JsOutcomes, elem \in ElementOutcomes,
       failAt \in 0..3, js \in JsOutcomes, coords \in BOOLEAN, highlight \in JsOutcomes :
        LET out == ClickElement(debuggerAttached, attach, lookup, elem, failAt, js) IN
        Handle("clickElement", 0,
               IF ~out.threw /\ ~out.error /\ coords /\ highlight = "throw"
               THEN [out EXCEPT !.threw = TRUE]
               ELSE out)

\* ipcMain.handle('automation:fill-input')
AutomationFillInput ==
    \E attach \in AttachOutcomes, lookup \in JsOutcomes, elem \in ElementOutcomes,
       failAt \in 0..5, js \in JsOutcomes, again \in {"found", "missing"}, len \in 1..MaxText :
        Handle("fillInput", len,
               FillInput(debuggerAttached, attach, len, lookup, elem, failAt, js, again))

\* ipcMain.handle('automation:navigate'): loadURL.
AutomationNavigate ==
    \E load \in JsOutcomes :
        Handle("navigate", 0,
               Outcome(load = "throw", FALSE, debuggerAttached, "untried", "none", 0, 0))

\* ipcMain.handle('automation:wait'): a timer of at most 10 s; the handler
\* neither looks for a view nor has a try block.
AutomationWait ==
    /\ reply' = [op |-> "wait", hadView |-> view, asked |-> 0, threw |-> FALSE,
                 kind |-> "success", error |-> "none",
                 attached |-> debuggerAttached, cdp |-> "untried",
                 via |-> "none", clicks |-> 0, inserted |-> 0]
    /\ UNCHANGED <<view, debuggerAttached>>
    /\ UNCHANGED notIpc

\* closeTab(activeTabId): the tab's webContents is destroyed, and another
\* tab, or a new one when none is left, becomes the active tab; the debugger
\* may have been attached to that tab by an earlier command.
CloseTab ==
    /\ view
    /\ debuggerAttached' \in BOOLEAN
    /\ UNCHANGED <<view, reply>>
    /\ UNCHANGED notIpc

\* createTab(): the first tab is created and becomes the active one.
CreateTab ==
    /\ ~view
    /\ view' = TRUE
    /\ UNCHANGED <<debuggerAttached, reply>>
    /\ UNCHANGED notIpc

NextIpc ==
    \/ AutomationClick
    \/ AutomationType
    \/ AutomationPressKey
    \/ AutomationScroll
    \/ AutomationGetElements
    \/ AutomationClickElement
    \/ AutomationFillInput
    \/ AutomationNavigate
    \/ AutomationWait
    \/ HandleNoView
    \/ CloseTab
    \/ CreateTab

\* ------------------------------------------- chat panel and its streams
Sends == 1..MaxSends

\* One request from the chat panel: which handler issued it (path), where
\* that handler stands (pc), the state of its stream or call in the main
\* process, the events main has sent for it, what the panel did with its
\* ending (handled), how the request ended in main (ended), and whether
\* the user pressed stop after it was issued (stopped).
NoChat ==
    [pc |-> "idle", stream |-> "none", chunks |-> 0, received |-> 0,
     terminal |-> "none", handled |-> "no",
     path |-> "none", ended |-> "no", stopped |-> FALSE]

\* webContents.send(channel, {streamId, ...}) and the reply of the invoke.
Msg(type, s, aborted) == [type |-> type, streamId |-> s, aborted |-> aborted]

InitPanel ==
    /\ isTyping = FALSE
    /\ streamIdRef = 0
    /\ chat = [s \in Sends |-> NoChat]
    /\ toRenderer = <<>>

\* handleSend up to its first await (captureScreenshot): setIsTyping(true).
HandleSend(s) ==
    /\ ~isTyping
    /\ chat[s].pc = "idle"
    /\ \A t \in Sends : t < s => chat[t].pc # "idle"
    /\ isTyping' = TRUE
    /\ chat' = [chat EXCEPT ![s] = [@ EXCEPT !.pc = "screenshot", !.path = "stream"]]
    /\ UNCHANGED <<streamIdRef, toRenderer>>
    /\ UNCHANGED notPanel

\* The handlers that use the non-streaming call: setIsTyping(true), then the
\* invoke of 'ai:summarize' or 'ai:chat', whose handler awaits
\* aiService.chat(). Their buttons are disabled while isTyping.
InvokeChat(s, path) ==
    /\ ~isTyping
    /\ chat[s].pc = "idle"
    /\ \A t \in Sends : t < s => chat[t].pc # "idle"
    /\ isTyping' = TRUE
    /\ chat' = [chat EXCEPT ![s] =
            [@ EXCEPT !.pc = "called", !.path = path, !.stream = "pending"]]
    /\ UNCHANGED <<streamIdRef, toRenderer>>
    /\ UNCHANGED notPanel

HandleSummarize(s) == InvokeChat(s, "summarize")

HandleExtractData(s) == InvokeChat(s, "chat")

HandleExecuteTask(s) == InvokeChat(s, "automate")

\* The handlers of 'ai:chat' and 'ai:summarize' in main: await
\* aiService.chat(); return its result, or {error: err.message} for whatever
\* it threw, the AbortError of an aborted request included.
ChatHandlerSettles(s) ==
    /\ chat[s].stream \in {"pending", "pendingAborted"}
    /\ \E res \in {"result", "failure"} :
        /\ chat[s].stream = "pendingAborted" => res = "failure"
        /\ toRenderer' = Append(toRenderer, Msg(res, s, FALSE))
        /\ chat' = [chat EXCEPT ![s] =
                [@ EXCEPT !.stream = "closed",
                          !.ended = IF chat[s].stream = "pendingAborted" THEN "aborted"
                                    ELSE IF res = "result" THEN "done" ELSE "failed"]]
    /\ UNCHANGED <<isTyping, streamIdRef>>
    /\ UNCHANGED notPanel

\* handleSend invokes 'ai:chat-stream'. The handler calls chatStream without
\* awaiting it: chatStream runs up to its first await, and a configuration
\* error goes through onError, which sends 'ai:stream-error', before that;
\* then the handler returns {streamId}. chatStream never throws, so the
\* handler never returns {error}.
ChatStreamHandler(s, name, cfg) ==
    /\ chat[s].pc = "screenshot"
    /\ LET valid == ValidateProvider(name, cfg) = "ok" IN
       /\ toRenderer' = toRenderer
                          \o (IF valid THEN <<>> ELSE <<Msg("error", s, FALSE)>>)
                          \o <<Msg("reply", s, FALSE)>>
       /\ chat' = [chat EXCEPT ![s] =
                [@ EXCEPT !.pc = "invoked",
                          !.stream = IF valid THEN "open" ELSE "closed",
                          !.ended = IF valid THEN "no" ELSE "failed",
                          !.terminal = IF valid THEN "none" ELSE "sent"]]
    /\ UNCHANGED <<isTyping, streamIdRef>>
    /\ UNCHANGED notPanel

\* The stream's onChunk callback in main: send 'ai:stream-chunk'.
StreamChunk(s) ==
    /\ chat[s].stream = "open" /\ chat[s].chunks < MaxChunks
    /\ toRenderer' = Append(toRenderer, Msg("chunk", s, FALSE))
    /\ chat' = [chat EXCEPT ![s] = [@ EXCEPT !.chunks = @ + 1]]
    /\ UNCHANGED <<isTyping, streamIdRef>>
    /\ UNCHANGED notPanel

\* The stream's terminal callback in main: onDone sends 'ai:stream-end',
\* onError 'ai:stream-error', with aborted: true for an AbortError.
StreamSettles(s) ==
    /\ chat[s].stream \in {"open", "aborting"}
    /\ \E type \in {"end", "error"} :
        /\ chat[s].stream = "aborting" => type = "error"
        /\ toRenderer' = Append(toRenderer, Msg(type, s, chat[s].stream = "aborting"))
        /\ chat' = [chat EXCEPT ![s] =
                [@ EXCEPT !.stream = "closed", !.terminal = "sent",
                          !.ended = IF chat[s].stream = "aborting" THEN "aborted"
                                    ELSE IF type = "end" THEN "done" ELSE "failed"]]
    /\ UNCHANGED <<isTyping, streamIdRef>>
    /\ UNCHANGED notPanel

\* handleStop: ai.stop() and the local reset; in main, 'ai:stop' aborts the
\* requests in flight and sends 'ai:stopped'.
HandleStop ==
    /\ isTyping
    /\ isTyping' = FALSE
    /\ streamIdRef' = 0
    /\ chat' = [s \in Sends |->
            [chat[s] EXCEPT !.stream = CASE @ = "open" -> "aborting"
                                         [] @ = "pending" -> "pendingAborted"
                                         [] OTHER -> @,
                            !.stopped = @ \/ chat[s].pc # "idle"]]
    /\ toRenderer' = Append(toRenderer, Msg("stopped", 0, FALSE))
    /\ UNCHANGED notPanel

\* The invoke of handleSend resolves with {streamId}: streamIdRef.current = streamId.
ChatStreamReplied ==
    /\ toRenderer # <<>> /\ Head(toRenderer).type = "reply"
    /\ LET s == Head(toRenderer).streamId IN
       /\ streamIdRef' = s
       /\ chat' = [chat EXCEPT ![s] = [@ EXCEPT !.pc = "replied"]]
    /\ toRenderer' = Tail(toRenderer)
    /\ UNCHANGED isTyping
    /\ UNCHANGED notPanel

\* The listener of 'ai:stream-chunk'.
OnStreamChunk ==
    /\ toRenderer # <<>> /\ Head(toRenderer).type = "chunk"
    /\ LET s == Head(toRenderer).streamId IN
       chat' = [chat EXCEPT ![s] =
                [@ EXCEPT !.received = IF s = streamIdRef THEN @ + 1 ELSE @]]
    /\ toRenderer' = Tail(toRenderer)
    /\ UNCHANGED <<isTyping, streamIdRef>>
    /\ UNCHANGED notPanel

\* The listeners of 'ai:stream-end' and 'ai:stream-error': an event whose
\* streamId is not streamIdRef.current is ignored; otherwise the reply or the
\* error is shown, setIsTyping(false) and streamIdRef.current = null. (A
\* stream sends one terminal event, so the processedStreamIdsRef guard of
\* the end listener never fires.)
OnStreamTerminal ==
    /\ toRenderer # <<>> /\ Head(toRenderer).type \in {"end", "error"}
    /\ LET m == Head(toRenderer)
           s == m.streamId
       IN
       IF s = streamIdRef
       THEN /\ chat' = [chat EXCEPT ![s] =
                    [@ EXCEPT !.terminal = "delivered",
                              !.handled = IF m.aborted THEN "stopped" ELSE m.type]]
            /\ isTyping' = FALSE
            /\ streamIdRef' = 0
       ELSE /\ chat' = [chat EXCEPT ![s] = [@ EXCEPT !.terminal = "delivered"]]
            /\ UNCHANGED <<isTyping, streamIdRef>>
    /\ toRenderer' = Tail(toRenderer)
    /\ UNCHANGED notPanel

\* The invoke of a non-streaming handler resolves: the content is added as
\* an assistant message, or `Error: ${result.error}` as an error message;
\* finally setIsTyping(false).
OnInvokeSettled ==
    /\ toRenderer # <<>> /\ Head(toRenderer).type \in {"result", "failure"}
    /\ LET m == Head(toRenderer)
           s == m.streamId
       IN
       chat' = [chat EXCEPT ![s] =
            [@ EXCEPT !.pc = "replied",
                      !.handled = IF m.type = "result" THEN "result" ELSE "error"]]
    /\ isTyping' = FALSE
    /\ toRenderer' = Tail(toRenderer)
    /\ UNCHANGED streamIdRef
    /\ UNCHANGED notPanel

\* The listener of 'ai:stopped'.
OnStopped ==
    /\ toRenderer # <<>> /\ Head(toRenderer).type = "stopped"
    /\ isTyping' = FALSE
    /\ streamIdRef' = 0
    /\ toRenderer' = Tail(toRenderer)
    /\ UNCHANGED chat
    /\ UNCHANGED notPanel

NextPanel ==
    \/ \E s \in Sends : HandleSend(s)
    \/ \E s \in Sends : HandleSummarize(s)
    \/ \E s \in Sends : HandleExtractData(s)
    \/ \E s \in Sends : HandleExecuteTask(s)
    \/ \E s \in Sends : ChatHandlerSettles(s)
    \/ OnInvokeSettled
    \/ \E s \in Sends, name \in Providers, cfg \in Configs : ChatStreamHandler(s, name, cfg)
    \/ \E s \in Sends : StreamChunk(s)
    \/ \E s \in Sends : StreamSettles(s)
    \/ HandleStop
    \/ ChatStreamReplied
    \/ OnStreamChunk
    \/ OnStreamTerminal
    \/ OnStopped


\* ------------------------------------------------- request body builders
Roles == {"system", "user", "assistant"}

\* The content texts of the messages: two texts that share no character.
Contents == {<<"a">>, <<"b">>}

\* {role, content, image?}: image says whether the message carries one.
Messages == [role : Roles, content : Contents, image : BOOLEAN]

MessageLists == UNION {[1..n -> Messages] : n \in 0..MaxMsgs}

\* The parts of a request body that come from the messages: the top-level
\* system text (<<>>: the field is not set) and the list of messages.
NewBody(system, messages) == [system |-> system, messages |-> messages]

\* _toOpenAIMessage(msg): the text, and the image_url part if there is an image.
ToOpenAIMessage(msg) == [role |-> msg.role, text |-> msg.content, image |-> msg.image]

\* _toOllamaMessage(msg): content, and the images field if there is an image.
ToOllamaMessage(msg) == [role |-> msg.role, text |-> msg.content, image |-> msg.image]

\* _toGeminiParts(msg) under the role Gemini knows.
ToGeminiParts(msg) ==
    [role |-> IF msg.role = "assistant" THEN "model" ELSE "user",
     text |-> msg.content, image |-> msg.image]

\* messages.map(m => this._toOpenAIMessage(m)) as the body's messages.
OpenAIBody(messages) ==
    NewBody(<<>>, [i \in DOMAIN messages |-> ToOpenAIMessage(messages[i])])

\* messages.map(m => this._toOllamaMessage(m))
OllamaBody(messages) ==
    NewBody(<<>>, [i \in DOMAIN messages |-> ToOllamaMessage(messages[i])])

\* _buildAnthropicMessages(messages): the system messages are joined with
\* '\n' into systemContent, the others pushed in order; body.system is set
\* if systemContent is not empty.
RECURSIVE BuildAnthropicMessages(_, _, _)
BuildAnthropicMessages(messages, systemContent, anthropicMessages) ==
    IF messages = <<>> THEN NewBody(systemContent, anthropicMessages)
    ELSE
        LET msg == Head(messages) IN
        IF msg.role = "system"
        THEN BuildAnthropicMessages(Tail(messages),
                (IF systemContent # <<>> THEN systemContent \o <<"NL">> ELSE <<>>)
                    \o msg.content,
                anthropicMessages)
        ELSE BuildAnthropicMessages(Tail(messages), systemContent,
                Append(anthropicMessages,
                       [role |-> msg.role, text |-> msg.content, image |-> msg.image]))

\* The loop of _chatGemini and _streamGemini: systemInstruction = msg.content
\* for a system message, contents.push(...) for the others;
\* body.systemInstruction is set if systemInstruction is not empty.
RECURSIVE GeminiBody(_, _, _)
GeminiBody(messages, systemInstruction, contents) ==
    IF messages = <<>> THEN NewBody(systemInstruction, contents)
    ELSE
        LET msg == Head(messages) IN
        IF msg.role = "system"
        THEN GeminiBody(Tail(messages), msg.content, contents)
        ELSE GeminiBody(Tail(messages), systemInstruction,
                        Append(contents, ToGeminiParts(msg)))

NewBuild(messages) ==
    [pc |-> "input", messages |-> messages, dialect |-> "none", body |-> NewBody(<<>>, <<>>)]

NoBuild == [NewBuild(<<>>) EXCEPT !.pc = "off"]

InitBody == built \in {NewBuild(ms) : ms \in MessageLists}

Build(dialect, body) ==
    /\ built.pc = "input"
    /\ built' = [built EXCEPT !.pc = "built", !.dialect = dialect, !.body = body]
    /\ UNCHANGED notBody

\* The body of _chatOpenAICompatible and _streamOpenAICompatible.
BuildOpenAICompatible == Build("openai", OpenAIBody(built.messages))

\* The body of _chatAnthropic and _streamAnthropic.
BuildAnthropic == Build("anthropic", BuildAnthropicMessages(built.messages, <<>>, <<>>))

\* The body of _chatGemini and _streamGemini.
BuildGemini == Build("gemini", GeminiBody(built.messages, <<>>, <<>>))

\* The body of _chatOllama and _streamOllama.
BuildOllama == Build("ollama", OllamaBody(built.messages))

NextBody == BuildOpenAICompatible \/ BuildAnthropic \/ BuildGemini \/ BuildOllama

\* ------------------------------------------------------- specifications
\* The AI service serving up to MaxReq requests.
Init == InitSvc /\ dec = NoDecoder /\ par = NoParse /\ InitRun /\ InitIpc /\ InitPanel /\ built = NoBuild

Next == NextSvc

Spec == Init /\ [][Next]_vars

\* The AI service serving up to MaxReq connection tests.
SpecTest == Init /\ [][NextTest]_vars

\* One stream decoder reading one response body, cut into chunks anywhere.
InitDecoder == InitDec /\ InitSvc /\ par = NoParse /\ InitRun /\ InitIpc /\ InitPanel /\ built = NoBuild

SpecDecoder == InitDecoder /\ [][NextDec]_vars

\* One text cleaned, fenced and parsed.
InitParser == InitPar /\ InitSvc /\ dec = NoDecoder /\ InitRun /\ InitIpc /\ InitPanel /\ built = NoBuild

SpecParser == InitParser /\ [][NextPar]_vars

\* The panel starting automation runs and driving them to their end.
InitRuns == InitRun /\ InitSvc /\ dec = NoDecoder /\ par = NoParse /\ InitIpc /\ InitPanel /\ built = NoBuild

SpecRun == InitRuns /\ [][NextRun]_vars

\* The renderer invoking the automation handlers, tabs closing and opening.
InitHandlers == InitIpc /\ InitSvc /\ dec = NoDecoder /\ par = NoParse /\ InitRun /\ InitPanel /\ built = NoBuild

SpecIpc == InitHandlers /\ [][NextIpc]_vars

\* The chat panel sending messages, their streams, and the user stopping them.
InitChat == InitPanel /\ InitSvc /\ dec = NoDecoder /\ par = NoParse /\ InitRun /\ InitIpc /\ built = NoBuild

SpecPanel == InitChat /\ [][NextPanel]_vars

\* One message list built into the request body of each backend dialect.
InitBuilder == InitBody /\ InitSvc /\ dec = NoDecoder /\ par = NoParse /\ InitRun /\ InitIpc /\ InitPanel

SpecBody == InitBuilder /\ [][NextBody]_vars

\* ----------------------------------------------- properties: AI service
\* Requests that have started and have neither settled nor been cancelled.
Unsettled == {r \in Reqs : Awaiting(req[r]) /\ ~req[r].aborted}

\* C1: in every reachable state the live set holds exactly the requests that
\* have started and not yet settled; a request that has completed (result
\* returned, error thrown, onDone/onError fired) is no longer in it.
C1_LiveSetIsInFlight ==
    /\ Cardinality(activeControllers) = Cardinality(Unsettled)
    /\ \A r \in Reqs : req[r].pc = "settled" => r \notin activeControllers

\* C2: abort() called with N requests in flight aborts each of them, leaves
\* the live set empty and returns exactly N (0 with nothing in flight).
C2_AbortReturnsInFlight ==
    [][Abort =>
        /\ abortCount' = Cardinality(Unsettled)
        /\ activeControllers' = {}
        /\ \A r \in Unsettled : req'[r].aborted]_vars

Terminal(c) == c = "done" \/ c = "error"

TerminalCalls(q) == {i \in DOMAIN q.calls : Terminal(q.calls[i])}

\* C3: for every chatStream call, however it ends, exactly one of onDone and
\* onError is invoked, exactly once, and no onChunk is invoked after it.
C3_ExactlyOneTerminal ==
    \A r \in Reqs : req[r].kind = "stream" =>
        /\ Cardinality(TerminalCalls(req[r])) <= 1
        /\ \A i \in TerminalCalls(req[r]) : i = Len(req[r].calls)
        /\ (req[r].pc = "settled") = (Cardinality(TerminalCalls(req[r])) = 1)

\* A stream that delivered a chunk and was then stopped by abort().
C3_Witness ==
    \E r \in Reqs :
        /\ req[r].kind = "stream" /\ req[r].pc = "settled"
        /\ req[r].calls = <<"chunk", "error">> /\ req[r].outcome = "abort"

\* C4: once a request's controller is aborted, the request delivers no
\* further onChunk and no onDone, returns no ChatResult, and its timeout
\* action never runs.
C4_NothingAfterAbort ==
    [][\A r \in Reqs : req[r].aborted =>
        /\ \A i \in DOMAIN req'[r].calls :
              i > Len(req[r].calls) => req'[r].calls[i] = "error"
        /\ (req'[r].outcome = "result" => req[r].outcome = "result")
        /\ (req'[r].timer = "fired" => req[r].timer = "fired")]_vars

\* abort() found a stream in flight that had delivered a chunk; the stream
\* ended with the AbortError, its timer cleared.
C4_Witness ==
    /\ abortCount = MaxReq
    /\ \A r \in Reqs :
        /\ req[r].kind = "stream" /\ req[r].outcome = "abort" /\ req[r].timer = "cleared"
        /\ req[r].calls = <<"chunk", "error">>

\* The configurations the specification calls invalid.
BadConfig(q) ==
    \/ q.provider \notin {"ollama", "lmstudio"} /\ ~q.cfg.apiKey
    \/ ~q.cfg.baseUrl
    \/ ~q.cfg.model

\* C5: a call whose configuration is invalid fails with a configuration
\* error (thrown by chat, sent once through onError by chatStream) with no
\* network request and no handle in the live set; every other call, a local
\* provider without API key included, goes to the network.
C5_ValidatedBeforeNetwork ==
    \A r \in Reqs : req[r].kind # "none" =>
        IF BadConfig(req[r])
        THEN /\ req[r].pc = "settled" /\ req[r].outcome = "config"
             /\ req[r].fetches = 0 /\ req[r].timer = "none"
             /\ r \notin activeControllers
             /\ (req[r].kind = "stream" => req[r].calls = <<"error">>)
        ELSE req[r].fetches = 1 /\ req[r].outcome # "config"

\* A stream to a local provider without API key, rejected for its missing model.
C5_Witness ==
    \E r \in Reqs :
        /\ req[r].kind = "stream" /\ req[r].provider = "lmstudio"
        /\ ~req[r].cfg.apiKey /\ req[r].cfg.baseUrl /\ ~req[r].cfg.model
        /\ req[r].calls = <<"error">> /\ req[r].outcome = "config"

\* C11: for provider ollama or lmstudio, a connection failure in chat or
\* chatStream is reported as the error that names the local application and
\* how to start it, never as the raw fetch error.
C11_LocalConnectionErrorNamesApp ==
    \A r \in Reqs :
        req[r].provider \in {"ollama", "lmstudio"} => req[r].outcome # "net"

\* C18: the timeout action of a handle (abort it, log 'Request timed out')
\* runs only if its request is still unsettled when the timeout elapses; a
\* request that completed before its timeout never causes the warning.
C18_TimeoutOnlyWhileUnsettled ==
    [][\A r \in Reqs :
        (req[r].timer # "fired" /\ req'[r].timer = "fired") => r \in Unsettled]_vars

\* C19: a handle that has been cancelled, by abort() or by its timeout, is
\* never in the live set again, and cancelling it again changes nothing:
\* abort() leaves its request as it is, and its timer never fires afterwards.
C19_CancelledStaysCancelled ==
    [][\A r \in Reqs : req[r].aborted =>
        /\ r \notin activeControllers /\ r \notin activeControllers'
        /\ req'[r].aborted
        /\ req'[r].timer = req[r].timer
        /\ (abortCount' # abortCount => req'[r] = req[r])]_vars

\* abort() cancelled a request, clearing its timer, and was then called again
\* and found nothing to cancel.
C19_Witness ==
    /\ abortCount = 0
    /\ \E r \in Reqs : req[r].aborted /\ req[r].timer = "cleared"

\* C25: no log entry of level error is emitted for a request that ended
\* because it was aborted, by abort() or by its timeout: the entries logged
\* for a request whose ending is an AbortError are of level warn only.
C25_AbortedIsNeverLoggedAsError ==
    \A r \in Reqs :
        req[r].outcome = "abort" =>
            \A i \in DOMAIN req[r].log : req[r].log[i] # "error"

\* The text c occurs in the text t.
Contains(t, c) == \E i \in 1..(Len(t) - Len(c) + 1) : SubSeq(t, i, i + Len(c) - 1) = c

\* The texts a request body carries.
BodyTexts(body) == {body.system} \cup {body.messages[i].text : i \in DOMAIN body.messages}

\* C28: for every message list and every backend dialect, the content text
\* of every input message, system messages included, is present in the
\* request body that is sent; no message's text is dropped or overwritten.
C28_NoTextDropped ==
    built.pc = "built" =>
        \A i \in DOMAIN built.messages :
            \E t \in BodyTexts(built.body) : Contains(t, built.messages[i].content)

\* ------------------------------------------- properties: stream decoders
\* The same body handed to the decoder as a single chunk.
DecodeWhole(d) ==
    LET d1 == IF d.stream = <<>> THEN d ELSE DecodeChunk(d, d.stream) IN
    IF d1.pc = "finished" THEN d1 ELSE DecodeEnd(d1)

\* C6: for each stream dialect, a body cut into chunks at any offsets, the
\* middle of a line and of a character included, yields the same onChunk
\* sequence and the same terminal callback as the body in one chunk.
C6_SplitInvariant ==
    dec.pc = "finished" =>
        dec.calls = DecodeWhole(NewDecoder(dec.dialect, dec.stream, dec.ending)).calls

\* A body read to its end in chunks, one of them ending inside the two-byte
\* character of a text delta that was then delivered.
C6_Witness ==
    /\ dec.pc = "finished" /\ dec.cut = "char" /\ dec.pos = Len(dec.stream)
    /\ \E i \in DOMAIN dec.calls : dec.calls[i] = <<"chunk", <<"U">> >>
    /\ dec.calls[Len(dec.calls)] = <<"done">>

\* The three SSE lines carrying content "A" (here the two-byte character),
\* content "B" (here the one-byte character) and [DONE].
ABDoneStream ==
    JoinLines(<< <<"P1", "P2", "{", "t", "u1", "u2", "}">>,
                 <<"SP", "P1", "P2", "{", "t", "a", "}", "SP">>,
                 <<"P1", "P2", "D">> >>, 3, TRUE)

ABDoneCalls == << <<"chunk", <<"U">> >>, <<"chunk", <<"a">> >>, <<"done">> >>

\* C12: text deltas reach onChunk in the order of their lines and the
\* terminal callback comes after all of them: the lines "A", "B", [DONE],
\* however the body is cut into reads, give onChunk("A"), onChunk("B"),
\* onDone() in that order and no onError; at every moment the callbacks so
\* far are a prefix of these three, and in any stream a terminal callback is
\* the last callback.
C12_DeltasInOrderThenDone ==
    /\ \A i \in DOMAIN dec.calls :
          dec.calls[i][1] \in {"done", "error"} => i = Len(dec.calls) /\ dec.pc = "finished"
    /\ (dec.dialect = "openai" /\ dec.stream = ABDoneStream) =>
          /\ \E n \in 0..3 : dec.calls = SubSeq(ABDoneCalls, 1, n)
          /\ dec.pc = "finished" => dec.calls = ABDoneCalls

\* The three lines were read in several reads, one of them ending inside a
\* line, and all three callbacks were made.
C12_Witness ==
    /\ dec.dialect = "openai" /\ dec.stream = ABDoneStream
    /\ dec.pc = "finished" /\ dec.cut # "none" /\ dec.calls = ABDoneCalls

\* C20: every onChunk invocation carries a non-empty string: a line whose
\* content field is empty or absent produces no onChunk.
C20_ChunksAreNonEmpty ==
    \A i \in DOMAIN dec.calls : dec.calls[i][1] = "chunk" => dec.calls[i][2] # <<>>

\* C30: when the response body ends without a trailing newline, the final
\* line is still decoded: the callbacks are those of the same body with
\* its last line newline-terminated, so the deltas delivered before onDone
\* do not depend on whether the last line is terminated.
C30_UnterminatedLastLineIsDecoded ==
    (/\ dec.pc = "finished" /\ dec.ending = "eof"
     /\ dec.stream # <<>> /\ dec.stream[Len(dec.stream)] # "NL") =>
        dec.calls = DecodeWhole(NewDecoder(dec.dialect, dec.stream \o <<"NL">>,
                                           dec.ending)).calls

\* --------------------------------------------------- properties: parser
\* C7: for every response text t, parseCommands(cleanMessageText(t)) is the
\* empty list.
C7_CleanedTextHasNoCommands ==
    (par.pc = "parsed" /\ par.via = "clean") => par.commands = <<>>

\* C8: for every text t, parseCommands of t inside a code fence, with or
\* without a language tag, is parseCommands(t).
C8_FenceChangesNothing ==
    (par.pc = "parsed" /\ par.via = "fence") => par.commands = ParseCommands(par.input)

\* C13: parseCommands maps CLICK_ELEMENT("button.submit") to exactly one
\* click_element command with that selector, FILL("#email", "a@b.com") to
\* exactly one fill command with that selector and value, SCROLL(-300) to
\* exactly one scroll command with deltaY -300, and the prose line
\* "Let's click the button now" to no command.
C13_LiteralLinesParse ==
    LET clickElement == [type |-> "click_element", args |-> << <<"w", "x", "w">> >>]
        fill == [type |-> "fill",
                 args |-> << <<"x", "w">>, <<"w", "x", "w", "x", "w">> >>]
        scroll == [type |-> "scroll", args |-> <<-300>>]
    IN (par.pc = "parsed" /\ par.via = "none") =>
        /\ par.input = ClickElementLine => par.commands = <<clickElement>>
        /\ par.input = FillLine => par.commands = <<fill>>
        /\ par.input = ScrollLine => par.commands = <<scroll>>
        /\ par.input = ProseLine => par.commands = <<>>
        /\ par.input = AllLines => par.commands = <<clickElement, fill, scroll>>

\* The four lines were parsed as one text: three commands, the last a scroll
\* upwards.
C13_Witness ==
    /\ par.pc = "parsed" /\ par.via = "none" /\ par.input = AllLines
    /\ Len(par.commands) = 3 /\ par.commands[3].type = "scroll"
    /\ par.commands[3].args[1] < 0

\* The types of the command patterns that match a trimmed line.
MatchingTypes(trimmed) ==
    {CommandPatterns[k].type : k \in {j \in DOMAIN CommandPatterns :
                                        RegexMatch(CommandPatterns[j].re, trimmed).ok}}

\* C27: when a line matches more than one command pattern, the command
\* produced is the one that comes first in the order click-by-coordinate,
\* click-by-selector, type, fill, press, scroll, navigate, wait, find, and
\* each line yields at most one command (checked on the texts of one line
\* outside any fence).
C27_FirstInPriorityOrderWins ==
    LET PriorityOrder ==
            <<"click", "click_element", "type", "fill", "press", "scroll",
              "navigate", "wait", "find">>
        oneLine == \A i \in DOMAIN par.input : par.input[i] \notin {"NL", "BT"}
        types == MatchingTypes(Trim(par.input))
        first == CHOOSE k \in DOMAIN PriorityOrder :
                    /\ PriorityOrder[k] \in types
                    /\ \A j \in 1..(k - 1) : PriorityOrder[j] \notin types
    IN (par.pc = "parsed" /\ par.via = "none" /\ oneLine) =>
        /\ Len(par.commands) <= 1
        /\ types # {} =>
            Len(par.commands) = 1 /\ par.commands[1].type = PriorityOrder[first]

\* ------------------------------------------- properties: automation runs
\* C9: when a run in which some command k failed finishes, it has
\* dispatched all its N commands, step k is in status error with a non-null
\* duration, and every step is done or error, none pending or running.
C9_FailedStepDoesNotHaltRun ==
    [][\A r \in RunIds :
        (run[r].pc # "finished" /\ run'[r].pc = "finished" /\ run'[r].failed # {}) =>
            /\ run'[r].i = run'[r].n
            /\ \A k \in run'[r].failed :
                /\ k \in DOMAIN automationSteps'
                /\ automationSteps'[k].status = "error"
                /\ automationSteps'[k].duration # "null"
            /\ \A k \in DOMAIN automationSteps' :
                automationSteps'[k].status \in {"done", "error"}]_vars

\* The runs that have begun and whose promise has not yet resolved.
ActiveRuns == {r \in RunIds : run[r].pc \notin {"idle", "finished"}}

\* C14: at any time at most one automation run is executing commands: no
\* run begins while an earlier run has not yet finished.
C14_OneRunAtATime == Cardinality(ActiveRuns) <= 1

\* The moves of a step record's status that the tracker allows.
StatusMoves ==
    {<<"pending", "running">>, <<"running", "done">>, <<"running", "error">>}

\* C15: a step record's status only ever moves pending -> running -> done
\* or error: as long as the step list is not replaced by the start of a new
\* run, every record keeps its status or makes one of these moves.
C15_StatusNeverRegresses ==
    [][(\A r \in RunIds : (run[r].pc = "idle") = (run'[r].pc = "idle")) =>
        \A k \in DOMAIN automationSteps :
            /\ k \in DOMAIN automationSteps'
            /\ \/ automationSteps'[k].status = automationSteps[k].status
               \/ <<automationSteps[k].status, automationSteps'[k].status>> \in StatusMoves]_vars

\* C16: commands are dispatched one after the other, command n+1 only when
\* the call of command n has settled, so at most one step is in status
\* running at any time.
C16_OneStepRunning ==
    Cardinality({k \in DOMAIN automationSteps : automationSteps[k].status = "running"}) <= 1

\* C29: between the end of each command that is not the last and the
\* dispatch of the next command the 250 ms settle delay elapses, whether
\* the command succeeded, returned an error or threw: no run goes from
\* the awaited call of one command to the awaited call of the next in one
\* step, without waiting in between.
C29_DelayBetweenCommands ==
    [][\A r \in RunIds :
        (run[r].pc = "call" /\ run'[r].pc = "call") => run'[r].i = run[r].i]_vars

\* ------------------------------------------------ properties: chat panel
\* C17: every terminal event of a stream started from the chat panel is
\* processed by the panel, whenever it is emitted relative to the reply that
\* carries the stream id: once the reply and the terminal event of a stream
\* have both reached the panel, the panel is no longer waiting for that
\* stream (a configuration error has been shown, the typing state left).
C17_TerminalEventIsProcessed ==
    \A s \in Sends :
        (chat[s].pc = "replied" /\ chat[s].terminal = "delivered") => streamIdRef # s

\* C24: a request ended by abort is reported to the user as stopped, never
\* as a failure, on every path (streaming chat, non-streaming chat,
\* Automate, summarize): the panel shows no error message for a request
\* whose ending in main was an abort.
C24_AbortIsShownAsStopped ==
    \A s \in Sends : chat[s].ended = "aborted" => chat[s].handled # "error"

\* C26: after the user presses stop, no chunk or end event of a request
\* issued before the stop changes the panel: no chunk of it is appended to
\* the streaming text and its end event is not processed, also when stop was
\* pressed while handleSend waited for its screenshot or for the reply that
\* carries the stream id.
C26_NothingAfterStop ==
    [][\A s \in Sends : chat[s].stopped =>
            /\ chat'[s].received = chat[s].received
            /\ chat'[s].handled = "end" => chat[s].handled = "end"]_vars

\* --------------------------------------- properties: automation handlers
\* C10: every automation IPC operation resolves, to a success payload or to
\* {error: string}, whatever the underlying operation does; with no active
\* tab it resolves to {error}. It never rejects.
C10_HandlersNeverReject ==
    /\ reply.kind \in {"none", "success", "error"}
    /\ (reply.kind = "error") = (reply.error = "string")
    /\ (reply.op \notin {"none", "wait"} /\ ~reply.hadView) => reply.kind = "error"
    /\ reply.threw => reply.kind = "error"

\* A type command whose CDP insertText failed and whose fallback script then
\* threw: the exception reached the handler's catch.
C10_Witness ==
    /\ reply.op = "type" /\ reply.hadView /\ reply.threw
    /\ reply.kind = "error" /\ reply.error = "string"

\* C21: for click and clickElement a failure of the highlight injection
\* never changes the command's outcome: the click is still performed, and
\* the caller receives the click's own result. So a click command with an
\* active tab always reaches its click, and a click that was performed is
\* reported as success.
C21_HighlightNeverChangesOutcome ==
    (reply.op \in {"click", "clickElement"} /\ reply.hadView) =>
        /\ reply.op = "click" => reply.via # "none"
        /\ reply.clicks = 1 => reply.kind = "success"

\* The commands that have a protocol tier and a DOM-script fallback.
TwoTierOps == {"click", "type", "pressKey", "scroll", "clickElement", "fillInput"}

C23_TypeInsertsOnce ==
    (reply.op = "type" /\ reply.hadView) => reply.inserted <= reply.asked

====
